---- MODULE Spec2Model ----
(***************************************************************************)
(* AlephiumProvider (src/src/index.ts): the session / account / chain      *)
(* reconciliation of the WalletConnect provider and its request            *)
(* dispatcher.                                                             *)
(*                                                                         *)
(* A wire string is a sequence of tokens.  A token is either one of the    *)
(* separator characters of the wire formats (":", "-", "+", ",") or a      *)
(* chunk of characters holding none of them ("alephium", "4", "addrA").    *)
(* replace,                                                                *)
(* split, startsWith, join and Number only look at separators and at whole *)
(* chunks, so they are computed on tokens as the code computes them on     *)
(* characters.                                                             *)
(***************************************************************************)
EXTENDS Integers, Sequences, FiniteSets

VARIABLES networkId, chainGroup, methods, accounts, lastSetAccounts,
          connected, emitted, op, streak, lastAccountsChanged, codec, wallet

vars == <<networkId, chainGroup, methods, accounts, lastSetAccounts,
          connected, emitted, op, streak, lastAccountsChanged, codec, wallet>>

---------------------------------------------------------------------------
(* Bounds of the model *)

\* Longest account payload (number of account strings) an event carries.
MaxPayloadLen == 2

\* accountsChanged events counted within one run of deliveries of a payload.
MaxStreakEmits == 2

\* Messages the wallet has sent and the provider has not yet handled.
MaxInFlight == 4

\* Chain changes the wallet makes.
MaxChainChanges == 2

---------------------------------------------------------------------------
(* JavaScript values *)

\* The number NaN: Number(x) of a field that is no numeral.
NaN == -1000

\* undefined, as the value of a destructured field that is absent.
Undefined == <<"#undefined">>

\* a === b on numbers: NaN equals nothing, itself included.
StrictEq(a, b) == a # NaN /\ b # NaN /\ a = b

\* The numerals the model's strings are written with.
Numerals == {"0", "1", "2", "3", "4", "5", "7"}

NumeralValue(c) ==
  CASE c = "0" -> 0 [] c = "1" -> 1 [] c = "2" -> 2 [] c = "3" -> 3
    [] c = "4" -> 4 [] c = "5" -> 5 [] c = "7" -> 7

NumeralOf(n) ==
  CASE n = 0 -> "0" [] n = 1 -> "1" [] n = 2 -> "2" [] n = 3 -> "3"
    [] n = 4 -> "4" [] n = 5 -> "5" [] n = 7 -> "7"

\* Number(field): undefined -> NaN, "" -> 0, a numeral -> its value, else NaN.
Number(field) ==
  IF field = Undefined THEN NaN
  ELSE IF field = <<>> THEN 0
  ELSE IF Len(field) = 1 /\ field[1] \in Numerals THEN NumeralValue(field[1])
  ELSE NaN

\* `${n}` of a number: a negative number is written with the character "-".
NumToString(n) ==
  IF n = NaN THEN <<"NaN">>
  ELSE IF n < 0 THEN <<"-", NumeralOf(0 - n)>>
  ELSE <<NumeralOf(n)>>

\* `${s}` of a string or undefined.
StrToString(s) == IF s = Undefined THEN <<"undefined">> ELSE s

\* s.replace(/-/g, ":")
ReplaceDash(s) == [i \in 1..Len(s) |-> IF s[i] = "-" THEN ":" ELSE s[i]]

\* s.split(":") : the fields between the ":" tokens, empty fields kept.
RECURSIVE Split(_)
Split(s) ==
  IF \A i \in 1..Len(s) : s[i] # ":" THEN <<s>>
  ELSE LET k == CHOOSE i \in 1..Len(s) :
                  s[i] = ":" /\ \A j \in 1..(i - 1) : s[j] # ":"
       IN <<SubSeq(s, 1, k - 1)>> \o Split(SubSeq(s, k + 1, Len(s)))

\* const [.., x, ..] = fields : the k-th field, undefined when absent.
Field(fields, k) == IF k <= Len(fields) THEN fields[k] ELSE Undefined

\* strings.join() : the strings with "," between them.
RECURSIVE Join(_)
Join(strings) ==
  IF strings = <<>> THEN <<>>
  ELSE IF Len(strings) = 1 THEN strings[1]
  ELSE strings[1] \o <<",">> \o Join(Tail(strings))

---------------------------------------------------------------------------
(* Identifier codec and compatibility filter *)

namespace == "alephium"

signerMethods == <<"alph_getAccounts", "alph_signTransferTx",
                   "alph_signContractCreationTx", "alph_signScriptTx",
                   "alph_signUnsignedTx", "alph_signHexString",
                   "alph_signMessage">>

\* `${namespace}:${networkId}-${chainGroup}`
formatChain(nid, grp) ==
  <<namespace, ":">> \o NumToString(nid) \o <<"-">> \o NumToString(grp)

\* [Number(networkId), Number(chainGroup)] of chainString.replace(/-/g, ":").split(":")
parseChain(chainString) ==
  LET fields == Split(ReplaceDash(chainString))
  IN <<Number(Field(fields, 2)), Number(Field(fields, 3))>>

\* `${namespace}:${networkId}-${account.group}:${account.address}-${account.pubkey}`
formatAccount(nid, account) ==
  <<namespace, ":">> \o NumToString(nid) \o <<"-">> \o NumToString(account.group)
    \o <<":">> \o StrToString(account.address) \o <<"-">> \o StrToString(account.pubkey)

\* parseAccount without the replace: the string is split at ":" alone.
parseAccountWithoutReplace(account) ==
  LET fields == Split(account)
  IN [address |-> Field(fields, 4),
      pubkey  |-> Field(fields, 5),
      group   |-> Number(Field(fields, 3))]

\* {address, pubkey, group: Number(group)}; namespace and networkId are dropped.
parseAccount(account) ==
  LET fields == Split(ReplaceDash(account))
  IN [address |-> Field(fields, 4),
      pubkey  |-> Field(fields, 5),
      group   |-> Number(Field(fields, 3))]

\* A chain filter that accepts every chain of the namespace.
isCompatibleChainAnyGroup(chain, grp) ==
  Len(chain) >= 2 /\ chain[1] = namespace /\ chain[2] = ":"

\* chain.startsWith("alephium:") && parseChain(chain)[1] === this.chainGroup
isCompatibleChain(chain, grp) ==
  /\ Len(chain) >= 2 /\ chain[1] = namespace /\ chain[2] = ":"
  /\ StrictEq(parseChain(chain)[2], grp)

\* No filter: every parsed account passes.
isCompatibleAccountAnyGroup(account, grp) == TRUE

\* The filter of setAccounts: account.group === this.chainGroup
isCompatibleAccount(account, grp) == StrictEq(account.group, grp)


---------------------------------------------------------------------------
(* Inputs: what the channel delivers and what the application asks *)

\* The test's provider options (networkId: NETWORK_ID, chainGroup: CHAIN_GROUP).
NETWORK_ID == 4
CHAIN_GROUP == 2

\* The group meaning "any group".
WildcardGroup == -1

\* The network the test's wallet changes to: changeChain(1, ...).
TestnetId == 1

Account(address, pubkey, group) ==
  [address |-> <<address>>, pubkey |-> <<pubkey>>, group |-> group]

\* "alephium:4-2:addrA-pkA", as WalletClient builds it with formatAccount.
acctA == formatAccount(NETWORK_ID, Account("addrA", "pkA", CHAIN_GROUP))
\* "alephium:4:3:addrB:pkB": an account of group G+1, written with ":" only.
acctB == <<"alephium", ":", "4", ":", "3", ":", "addrB", ":", "pkB">>
\* "alephium:7-2:addrA-pkA": account A under another network id.
acctA7 == <<"alephium", ":", "7", "-", "2", ":", "addrA", "-", "pkA">>

AccountStrings == {acctA, acctB, acctA7}

\* Malformed entries of an account payload: "alephium:4-2:addrM" has no pubkey
\* field, "alephium:4-x:addrX-pkX" has a group that is no number.
acctM == <<"alephium", ":", "4", "-", "2", ":", "addrM">>
acctX == <<"alephium", ":", "4", "-", "x", ":", "addrX", "-", "pkX">>
MalformedAccounts == {acctM, acctX}

\* The sequences of at most n members of S, no member twice.
SeqsUpTo(S, n) ==
  {q \in UNION {[1..k -> S] : k \in 0..n} :
     \A i, j \in 1..Len(q) : i # j => q[i] # q[j]}

\* The account payloads an event can carry.
Payloads == SeqsUpTo(AccountStrings, MaxPayloadLen)

\* Payloads in which malformed entries stand among well-formed ones.
EntryPayloads == SeqsUpTo({acctA, acctB} \cup MalformedAccounts, MaxPayloadLen)

chain42 == formatChain(NETWORK_ID, CHAIN_GROUP)
chain12 == formatChain(TestnetId, CHAIN_GROUP)
\* "alephium:4:3": the devnet chain of another group, written with ":" only.
chain43 == <<"alephium", ":", "4", ":", "3">>
\* "eip155:1": a chain of another namespace.
chainEip == <<"eip155", ":", "1">>

\* Chain strings with a field that is no number: "alephium:4-x" (the group),
\* "alephium:x-2" (the network id); the account string "alephium:x-2:addrN-pkN".
chain4x == <<"alephium", ":", "4", "-", "x">>
chainX2 == <<"alephium", ":", "x", "-", "2">>
acctN == <<"alephium", ":", "x", "-", "2", ":", "addrN", "-", "pkN">>

\* Chain lists and account payloads in which such strings stand.
UnparseableChainLists == {<<chain4x>>, <<chain4x, chain42>>, <<chainX2>>}
UnparseablePayloads == {<<acctX>>, <<acctN>>, <<acctX, acctA>>, <<acctA, acctN>>}

\* The permitted-chain lists an event can carry.
ChainLists == {<<>>, <<chain42>>, <<chain12, chain42>>, <<chain43, chainEip>>}

\* The private keys the test's wallet signs with, and the account of each:
\* a and c are of the provider's group, b is of another group.
SignerKeys == {"a", "b", "c"}
SignerAccount(key) ==
  CASE key = "a" -> Account("addrA", "pkA", CHAIN_GROUP)
    [] key = "b" -> Account("addrB", "pkB", CHAIN_GROUP + 1)
    [] key = "c" -> Account("addrC", "pkC", CHAIN_GROUP)

\* The account strings and chain strings the wallet sends.
WalletAccountStrings ==
  {formatAccount(nid, SignerAccount(key)) : nid \in {NETWORK_ID, TestnetId}, key \in SignerKeys}
WalletChains ==
  {formatChain(nid, SignerAccount(key).group) : nid \in {NETWORK_ID, TestnetId}, key \in SignerKeys}

\* opts.methods of the constructor: one method besides the signer methods.
OptsMethods == <<"wallet_custom">>

\* params.signerAddress of a request: absent, account A's, or an address that
\* is never published.
SignerAddresses == {Undefined, <<"addrA">>, <<"addrZ">>}

SigningMethods == {signerMethods[i] : i \in 2..Len(signerMethods)}

\* The requests an application makes: <<method, params.signerAddress, whether
\* the channel resolves the request if it is handed it>>.
Requests ==
  {<<"alph_getAccounts", Undefined, TRUE>>}
    \cup {<<m, <<"addrA">>, TRUE>> : m \in SigningMethods}
    \cup {<<"alph_signMessage", sa, ok>> : sa \in SignerAddresses, ok \in BOOLEAN}
    \cup {<<"wallet_custom", Undefined, TRUE>>, <<"eth_sign", <<"addrA">>, TRUE>>}

\* Notifications of types the provider has no branch for: <<type, data>>.
OtherNotifications == {<<"walletEvent", <<"payload">> >>, <<"walletLocked", <<>> >>}

Includes(list, x) == \E i \in 1..Len(list) : list[i] = x

---------------------------------------------------------------------------
(* The codec applied to lists.  The strings of the model are few, so each     *)
(* string is decoded once and the result looked up afterwards.                *)

ChainStrings == {chain42, chain12, chain43, chainEip, chain4x, chainX2} \cup WalletChains
NetworkIds == {NETWORK_ID, TestnetId}
Groups == {CHAIN_GROUP, WildcardGroup}

KnownAccountStrings ==
  AccountStrings \cup MalformedAccounts \cup WalletAccountStrings \cup {acctN}
ParsedAccount == [s \in KnownAccountStrings |-> parseAccount(s)]
ParsedAccounts == {ParsedAccount[s] : s \in KnownAccountStrings}
FormattedAccount ==
  [nid \in NetworkIds \cup {NaN} |-> [a \in ParsedAccounts |-> formatAccount(nid, a)]]
CompatibleChain ==
  [grp \in Groups |-> [c \in ChainStrings |-> isCompatibleChain(c, grp)]]
ParsedChain == [c \in ChainStrings |-> parseChain(c)]

\* accounts.map(AlephiumProvider.parseAccount)
parseAccounts(raw) == [i \in 1..Len(raw) |-> ParsedAccount[raw[i]]]

\* accounts.map(a => formatAccount(this.networkId, a)).join()
formatAccounts(nid, accs) ==
  Join([i \in 1..Len(accs) |-> FormattedAccount[nid][accs[i]]])

\* chains.filter(x => this.isCompatibleChain(x))
RECURSIVE compatibleChains(_, _)
compatibleChains(chains, grp) ==
  IF chains = <<>> THEN <<>>
  ELSE (IF CompatibleChain[grp][Head(chains)] THEN <<Head(chains)>> ELSE <<>>)
         \o compatibleChains(Tail(chains), grp)

\* parsedAccounts.filter(account => account.group === this.chainGroup)
RECURSIVE compatibleAccounts(_, _)
compatibleAccounts(parsed, grp) ==
  IF parsed = <<>> THEN <<>>
  ELSE (IF isCompatibleAccount(Head(parsed), grp) THEN <<Head(parsed)>> ELSE <<>>)
         \o compatibleAccounts(Tail(parsed), grp)


---------------------------------------------------------------------------
(* State reconciler *)

Event(type, data) == [type |-> type, data |-> data]

\* An optional value (lastSetAccounts?: Account[]): <<>> is undefined, <<v>> is v.
Some(v) == <<v>>
None == <<>>

\* The lists compared as objects, as `!==` compares two arrays: never the same.
sameAccountsByIdentity(nid, account0, account1) == FALSE

\* sameAccounts(account0, account1?): both lists formatted with the current
\* networkId and joined are the same string; false when account1 is undefined.
sameAccounts(nid, account0, account1) ==
  IF account1 = None THEN FALSE
  ELSE formatAccounts(nid, account0) = formatAccounts(nid, account1[1])

\* setChain that adopts the last compatible chain of the list.
setChainLastMatch(chains, nid, grp) ==
  LET compatible == compatibleChains(chains, grp)
  IN IF compatible # <<>>
     THEN LET parsed == ParsedChain[compatible[Len(compatible)]]
          IN [networkId  |-> parsed[1],
              chainGroup |-> parsed[2],
              events     |-> <<Event("chainChanged", parsed[1])>>]
     ELSE [networkId |-> nid, chainGroup |-> grp, events |-> <<>>]

\* setChain(chains): adopt the first compatible chain and emit chainChanged.
setChain(chains, nid, grp) ==
  LET compatible == compatibleChains(chains, grp)
  IN IF compatible # <<>>
     THEN LET parsed == ParsedChain[compatible[1]]
          IN [networkId  |-> parsed[1],
              chainGroup |-> parsed[2],
              events     |-> <<Event("chainChanged", parsed[1])>>]
     ELSE [networkId |-> nid, chainGroup |-> grp, events |-> <<>>]

\* The single-tier setAccounts: filter, publish and emit on every call.
setAccountsEveryCall(raw, nid, grp, accs, last) ==
  LET newAccounts == compatibleAccounts(parseAccounts(raw), grp)
  IN [accounts        |-> newAccounts,
      lastSetAccounts |-> last,
      events          |-> <<Event("accountsChanged", newAccounts)>>]

\* setAccounts without the comparison of the filtered accounts with the
\* published ones: every new raw payload is published and emitted.
setAccountsWithoutFilteredCheck(raw, nid, grp, accs, last) ==
  LET parsedAccounts == parseAccounts(raw)
  IN IF sameAccounts(nid, parsedAccounts, last)
     THEN [accounts |-> accs, lastSetAccounts |-> last, events |-> <<>>]
     ELSE LET newAccounts == compatibleAccounts(parsedAccounts, grp)
          IN [accounts        |-> newAccounts,
              lastSetAccounts |-> Some(parsedAccounts),
              events          |-> <<Event("accountsChanged", newAccounts)>>]

\* setAccounts that remembers the raw payload only when it publishes.
setAccountsWithoutCacheUpdate(raw, nid, grp, accs, last) ==
  LET parsedAccounts == parseAccounts(raw)
  IN IF sameAccounts(nid, parsedAccounts, last)
     THEN [accounts |-> accs, lastSetAccounts |-> last, events |-> <<>>]
     ELSE LET newAccounts == compatibleAccounts(parsedAccounts, grp)
          IN IF ~sameAccounts(nid, newAccounts, Some(accs))
             THEN [accounts        |-> newAccounts,
                   lastSetAccounts |-> Some(parsedAccounts),
                   events          |-> <<Event("accountsChanged", newAccounts)>>]
             ELSE [accounts |-> accs, lastSetAccounts |-> last, events |-> <<>>]

\* setAccounts that publishes without emitting accountsChanged.
setAccountsWithoutEvent(raw, nid, grp, accs, last) ==
  LET parsedAccounts == parseAccounts(raw)
  IN IF sameAccounts(nid, parsedAccounts, last)
     THEN [accounts |-> accs, lastSetAccounts |-> last, events |-> <<>>]
     ELSE LET newAccounts == compatibleAccounts(parsedAccounts, grp)
          IN [accounts        |-> IF ~sameAccounts(nid, newAccounts, Some(accs))
                                  THEN newAccounts ELSE accs,
              lastSetAccounts |-> Some(parsedAccounts),
              events          |-> <<>>]

\* setAccounts that treats an empty filtered list as nothing to publish.
setAccountsSkippingEmpty(raw, nid, grp, accs, last) ==
  LET parsedAccounts == parseAccounts(raw)
  IN IF sameAccounts(nid, parsedAccounts, last)
     THEN [accounts |-> accs, lastSetAccounts |-> last, events |-> <<>>]
     ELSE LET newAccounts == compatibleAccounts(parsedAccounts, grp)
          IN IF newAccounts # <<>> /\ ~sameAccounts(nid, newAccounts, Some(accs))
             THEN [accounts        |-> newAccounts,
                   lastSetAccounts |-> Some(parsedAccounts),
                   events          |-> <<Event("accountsChanged", newAccounts)>>]
             ELSE [accounts        |-> accs,
                   lastSetAccounts |-> Some(parsedAccounts),
                   events          |-> <<>>]

\* setAccounts that publishes the parsed payload without filtering it.
setAccountsPublishingAll(raw, nid, grp, accs, last) ==
  LET parsedAccounts == parseAccounts(raw)
  IN IF sameAccounts(nid, parsedAccounts, last)
     THEN [accounts |-> accs, lastSetAccounts |-> last, events |-> <<>>]
     ELSE IF ~sameAccounts(nid, parsedAccounts, Some(accs))
          THEN [accounts        |-> parsedAccounts,
                lastSetAccounts |-> Some(parsedAccounts),
                events          |-> <<Event("accountsChanged", parsedAccounts)>>]
          ELSE [accounts        |-> accs,
                lastSetAccounts |-> Some(parsedAccounts),
                events          |-> <<>>]

\* setAccounts(accounts, t): the two-tier comparison; t is only logged.
setAccounts(raw, nid, grp, accs, last) ==
  LET parsedAccounts == parseAccounts(raw)
  IN IF sameAccounts(nid, parsedAccounts, last)
     THEN [accounts |-> accs, lastSetAccounts |-> last, events |-> <<>>]
     ELSE LET newAccounts == compatibleAccounts(parsedAccounts, grp)
          IN IF ~sameAccounts(nid, newAccounts, Some(accs))
             THEN [accounts        |-> newAccounts,
                   lastSetAccounts |-> Some(parsedAccounts),
                   events          |-> <<Event("accountsChanged", newAccounts)>>]
             ELSE [accounts        |-> accs,
                   lastSetAccounts |-> Some(parsedAccounts),
                   events          |-> <<>>]

---------------------------------------------------------------------------
(* History: what the last step did *)

NoOp == [kind |-> "init", payload |-> <<>>, delivery |-> FALSE, fed |-> FALSE,
         repeat |-> FALSE, crossPath |-> FALSE, changed |-> FALSE, first |-> FALSE,
         laterFed |-> FALSE,
         method |-> "", signer |-> Undefined, forwarded |-> FALSE, tag |-> <<>>,
         outcome |-> "", value |-> <<>>,
         chains |-> None, chainRepeat |-> FALSE, afterUpdated |-> FALSE,
         from |-> <<>>, sends |-> 0, channelOk |-> TRUE, present |-> FALSE]

\* The wallet of the test before it approved a session: WalletClient as
\* constructed, with the history of what it did since.
NoWallet == [session |-> FALSE, networkId |-> NETWORK_ID, signer |-> "a",
             permittedChains |-> <<>>, sessionChains |-> <<>>,
             sessionAccounts |-> <<>>, inflight |-> <<>>,
             trail |-> <<"off">>, events |-> <<>>, chainChanges |-> 0,
             response |-> "none"]

\* No codec function has been applied.
NoCodec == [kind |-> "none", input |-> <<>>, networkId |-> 0, string |-> <<>>,
            result |-> <<>>, canonical |-> <<>>, threw |-> FALSE]

NoStreak == [payload |-> <<>>, started |-> FALSE, anyFed |-> FALSE, emits |-> 0,
             expectEmits |-> 0, expectAccounts |-> <<>>]

\* The number of events of a type among the events of the last step.
RECURSIVE Count(_, _)
Count(events, type) ==
  IF events = <<>> THEN 0
  ELSE (IF Head(events).type = type THEN 1 ELSE 0) + Count(Tail(events), type)

\* The provider after its constructor.
ProviderInit ==
  /\ networkId = NETWORK_ID
  /\ chainGroup \in {CHAIN_GROUP, WildcardGroup}
  /\ methods = OptsMethods \o signerMethods
  /\ accounts = <<>>
  /\ lastSetAccounts = None
  /\ connected = FALSE
  /\ emitted = <<>>
  /\ op = NoOp
  /\ streak = NoStreak
  /\ lastAccountsChanged = <<>>
  /\ codec = NoCodec

Init == ProviderInit /\ wallet = NoWallet

\* A handler that carried the account payload raw: c is what it did to the chain
\* (setChain's result or no change), a what it did to the accounts (setAccounts'
\* result or no change), fed whether it called setAccounts, chainsFed the chain
\* list it called setChain with, if it did.  The history keeps the chain list
\* when setChain adopted a chain of it, and whether the step before had fed
\* setChain the same list.
Deliver(kind, raw, chainsFed, c, a, fed) ==
  LET continues == streak.started /\ streak.payload = raw
      single    == setAccounts(raw, networkId, chainGroup, accounts, lastSetAccounts)
  IN /\ continues => streak.emits < MaxStreakEmits
     /\ networkId' = c.networkId
     /\ chainGroup' = c.chainGroup
     /\ accounts' = a.accounts
     /\ lastSetAccounts' = a.lastSetAccounts
     /\ emitted' = c.events \o a.events
     /\ lastAccountsChanged' =
          IF a.events # <<>> THEN a.events[Len(a.events)].data ELSE lastAccountsChanged
     /\ op' = [NoOp EXCEPT !.kind = kind, !.payload = raw, !.delivery = TRUE,
                           !.fed = fed,
                           !.repeat = fed /\ op.fed /\ op.payload = raw,
                           !.crossPath = op.delivery /\ op.payload = raw /\ op.kind # kind,
                           !.changed = (a.accounts # accounts),
                           !.first = ~continues,
                           !.laterFed = fed /\ continues /\ streak.anyFed,
                           !.chains = IF c.events # <<>> THEN chainsFed ELSE None,
                           !.chainRepeat = c.events # <<>> /\ op.chains = chainsFed,
                           !.value = IF kind = "connect" THEN a.accounts ELSE <<>>,
                           !.present = (kind = "updated" /\ chainsFed = None)]
     /\ streak' =
          IF continues
          THEN [streak EXCEPT !.anyFed = @ \/ fed, !.emits = @ + Len(a.events)]
          ELSE [payload |-> raw, started |-> TRUE, anyFed |-> fed,
                emits |-> Len(a.events),
                expectEmits |-> Len(single.events),
                expectAccounts |-> single.accounts]
     /\ UNCHANGED <<methods, codec>>

NoChain == [networkId |-> networkId, chainGroup |-> chainGroup, events |-> <<>>]
NoAccounts == [accounts |-> accounts, lastSetAccounts |-> lastSetAccounts, events |-> <<>>]

---------------------------------------------------------------------------
(* Session event bridge: registerEventListeners *)

\* A connect handler that feeds both snapshots whatever they hold.
onConnectFeedingEmpty(chains, accts) ==
  /\ ~connected
  /\ connected' = TRUE
  /\ LET c == setChain(chains, networkId, chainGroup)
         a == setAccounts(accts, c.networkId, c.chainGroup, accounts, lastSetAccounts)
     IN Deliver("connect", accts, IF chains # <<>> THEN Some(chains) ELSE None,
                c, a, TRUE)

\* signer.on("connect"): the channel's snapshots, each fed only when non-empty.
onConnect(chains, accts) ==
  /\ ~connected
  /\ connected' = TRUE
  /\ LET c == IF chains # <<>> THEN setChain(chains, networkId, chainGroup) ELSE NoChain
         a == IF accts # <<>>
              THEN setAccounts(accts, c.networkId, c.chainGroup, accounts, lastSetAccounts)
              ELSE NoAccounts
     IN Deliver("connect", accts, IF chains # <<>> THEN Some(chains) ELSE None,
                c, a, accts # <<>>)

\* The connect event of a channel whose wallet is not modelled.
Connect(chains, accts) == onConnect(chains, accts) /\ UNCHANGED wallet

\* SIGNER_EVENTS.created
onCreated(chains, accts) ==
  /\ LET c == setChain(chains, networkId, chainGroup)
         a == setAccounts(accts, c.networkId, c.chainGroup, accounts, lastSetAccounts)
     IN Deliver("created", accts, Some(chains), c, a, TRUE)
  /\ UNCHANGED connected

Created(chains, accts) == onCreated(chains, accts) /\ UNCHANGED wallet

\* The updated handler that feeds setChain whatever the session's chains.
onUpdatedAlwaysSetChain(chains, accts) ==
  /\ LET chain == formatChain(networkId, chainGroup)
         c == setChain(chains, networkId, chainGroup)
         a == setAccounts(accts, c.networkId, c.chainGroup, accounts, lastSetAccounts)
     IN Deliver("updated", accts,
                IF ~Includes(chains, chain) THEN Some(chains) ELSE None, c, a, TRUE)
  /\ UNCHANGED connected

\* SIGNER_EVENTS.updated: setChain only if the provider's chain is not among
\* the session's chains, setAccounts always.
onUpdated(chains, accts) ==
  /\ LET chain == formatChain(networkId, chainGroup)
         c == IF ~Includes(chains, chain)
              THEN setChain(chains, networkId, chainGroup) ELSE NoChain
         a == setAccounts(accts, c.networkId, c.chainGroup, accounts, lastSetAccounts)
     IN Deliver("updated", accts,
                IF ~Includes(chains, chain) THEN Some(chains) ELSE None, c, a, TRUE)
  /\ UNCHANGED connected

Updated(chains, accts) == onUpdated(chains, accts) /\ UNCHANGED wallet

\* SIGNER_EVENTS.notification of type "accountsChanged"
onAccountsChanged(data) ==
  /\ Deliver("notification", data, None, NoChain,
             setAccounts(data, networkId, chainGroup, accounts, lastSetAccounts), TRUE)
  /\ UNCHANGED connected

NotifyAccounts(data) == onAccountsChanged(data) /\ UNCHANGED wallet

\* The chainChanged notification re-emitted without the assignment to
\* this.networkId.
NotifyChainWithoutAssign(data) ==
  /\ emitted' = <<Event("chainChanged", networkId)>>
  /\ op' = [NoOp EXCEPT !.kind = "notifyChain", !.value = <<data>>,
                        !.afterUpdated = (op.kind = "updated"),
                        !.from = <<networkId>>]
  /\ UNCHANGED <<networkId, chainGroup, methods, accounts, lastSetAccounts, connected,
                 streak, lastAccountsChanged, codec, wallet>>

\* A chainChanged handler that drops the accounts of the former network.
onChainChangedDroppingAccounts(data) ==
  /\ networkId' = data
  /\ accounts' = IF data # networkId THEN <<>> ELSE accounts
  /\ emitted' = <<Event("chainChanged", data)>>
  /\ op' = [NoOp EXCEPT !.kind = "notifyChain", !.value = <<data>>,
                        !.afterUpdated = (op.kind = "updated"),
                        !.from = <<networkId>>]
  /\ UNCHANGED <<chainGroup, methods, lastSetAccounts, connected, streak,
                 lastAccountsChanged, codec>>

\* SIGNER_EVENTS.notification of type "chainChanged"
onChainChanged(data) ==
  /\ networkId' = data
  /\ emitted' = <<Event("chainChanged", data)>>
  /\ op' = [NoOp EXCEPT !.kind = "notifyChain", !.value = <<data>>,
                        !.afterUpdated = (op.kind = "updated"),
                        !.from = <<networkId>>]
  /\ UNCHANGED <<chainGroup, methods, accounts, lastSetAccounts, connected, streak,
                 lastAccountsChanged, codec>>

NotifyChain(data) == onChainChanged(data) /\ UNCHANGED wallet

\* A notification handler that drops the types it does not know.
NotifyOtherDropped(type, data) ==
  /\ emitted' = <<>>
  /\ op' = [NoOp EXCEPT !.kind = "notifyOther", !.value = <<type, data>>]
  /\ UNCHANGED <<networkId, chainGroup, methods, accounts, lastSetAccounts, connected,
                 streak, lastAccountsChanged, codec, wallet>>

\* SIGNER_EVENTS.notification of any other type: re-emitted as it is.
NotifyOther(type, data) ==
  /\ emitted' = <<Event(type, data)>>
  /\ op' = [NoOp EXCEPT !.kind = "notifyOther", !.value = <<type, data>>]
  /\ UNCHANGED <<networkId, chainGroup, methods, accounts, lastSetAccounts, connected,
                 streak, lastAccountsChanged, codec, wallet>>

\* A disconnect handler that emits nothing.
DisconnectSilently ==
  /\ connected
  /\ connected' = FALSE
  /\ emitted' = <<>>
  /\ op' = [NoOp EXCEPT !.kind = "disconnect"]
  /\ UNCHANGED <<networkId, chainGroup, methods, accounts, lastSetAccounts, streak,
                 lastAccountsChanged, codec, wallet>>

\* A disconnect handler that resets the accounts and the dedup cache.
DisconnectResetting ==
  /\ connected
  /\ connected' = FALSE
  /\ accounts' = <<>>
  /\ lastSetAccounts' = None
  /\ emitted' = <<Event("disconnect", <<>>)>>
  /\ op' = [NoOp EXCEPT !.kind = "disconnect"]
  /\ UNCHANGED <<networkId, chainGroup, methods, streak, lastAccountsChanged, codec,
                 wallet>>

\* signer.on("disconnect"): the channel is no longer connected and the signal
\* is re-emitted.
Disconnect ==
  /\ connected
  /\ connected' = FALSE
  /\ emitted' = <<Event("disconnect", <<>>)>>
  /\ op' = [NoOp EXCEPT !.kind = "disconnect"]
  /\ UNCHANGED <<networkId, chainGroup, methods, accounts, lastSetAccounts, streak,
                 lastAccountsChanged, codec, wallet>>

---------------------------------------------------------------------------
(* Method dispatcher: request *)

\* request() without the alph_getAccounts branch: the method is in the list.
dispatchWithoutLocal(method, meths) ==
  IF Includes(meths, method) THEN "forward" ELSE "reject"

\* request() without the check of the method list.
dispatchWithoutList(method, meths) ==
  IF method = "alph_getAccounts" THEN "local" ELSE "forward"

\* The branch request() takes for a method name: answered from this.accounts,
\* handed to the channel, or rejected.
dispatch(method, meths) ==
  IF method = "alph_getAccounts" THEN "local"
  ELSE IF Includes(meths, method) THEN "forward"
  ELSE "reject"

\* The chain id a request is handed to the channel with, fixed at the network
\* id the provider was constructed with.
requestChainIdOfConstructor(nid, grp) == formatChain(NETWORK_ID, grp)

\* { chainId: AlephiumProvider.formatChain(this.networkId, this.chainGroup) }
requestChainId(nid, grp) == formatChain(nid, grp)

\* request() that hands a request the channel failed to the channel once more
\* and resolves.
onRequestWithRetry(method, signerAddress, channelOk) ==
  /\ LET branch == dispatch(method, methods)
         asked  == [NoOp EXCEPT !.kind = "request", !.method = method,
                                !.signer = signerAddress]
     IN op' = CASE branch = "local" ->
                     [asked EXCEPT !.outcome = "accounts", !.value = accounts]
                [] branch = "forward" ->
                     [asked EXCEPT !.forwarded = TRUE,
                                   !.sends = IF channelOk THEN 1 ELSE 2,
                                   !.channelOk = channelOk,
                                   !.tag = requestChainId(networkId, chainGroup),
                                   !.outcome = "channelResult"]
                [] OTHER ->
                     [asked EXCEPT !.outcome = "invalidMethod"]
  /\ emitted' = <<>>
  /\ UNCHANGED <<networkId, chainGroup, methods, accounts, lastSetAccounts, connected,
                 streak, lastAccountsChanged, codec>>

\* request() that forgets the published accounts when the channel fails.
onRequestForgettingAccounts(method, signerAddress, channelOk) ==
  /\ LET branch == dispatch(method, methods)
         asked  == [NoOp EXCEPT !.kind = "request", !.method = method,
                                !.signer = signerAddress]
     IN op' = CASE branch = "local" ->
                     [asked EXCEPT !.outcome = "accounts", !.value = accounts]
                [] branch = "forward" ->
                     [asked EXCEPT !.forwarded = TRUE,
                                   !.sends = 1,
                                   !.channelOk = channelOk,
                                   !.tag = requestChainId(networkId, chainGroup),
                                   !.outcome = IF channelOk THEN "channelResult"
                                               ELSE "channelError"]
                [] OTHER ->
                     [asked EXCEPT !.outcome = "invalidMethod"]
  /\ emitted' = <<>>
  /\ accounts' = IF dispatch(method, methods) = "forward" /\ ~channelOk
                 THEN <<>> ELSE accounts
  /\ UNCHANGED <<networkId, chainGroup, methods, lastSetAccounts, connected,
                 streak, lastAccountsChanged, codec>>

\* request({method, params}): signerAddress is params.signerAddress (request
\* does not read it), channelOk is whether the channel resolves the request it
\* is handed.  The promise of signer.request is returned as it is: the request
\* is handed over once, and its result or failure is the caller's.
onRequest(method, signerAddress, channelOk) ==
  /\ LET branch == dispatch(method, methods)
         asked  == [NoOp EXCEPT !.kind = "request", !.method = method,
                                !.signer = signerAddress]
     IN op' = CASE branch = "local" ->
                     [asked EXCEPT !.outcome = "accounts", !.value = accounts]
                [] branch = "forward" ->
                     [asked EXCEPT !.forwarded = TRUE,
                                   !.sends = 1,
                                   !.channelOk = channelOk,
                                   !.tag = requestChainId(networkId, chainGroup),
                                   !.outcome = IF channelOk THEN "channelResult"
                                               ELSE "channelError"]
                [] OTHER ->
                     [asked EXCEPT !.outcome = "invalidMethod"]
  /\ emitted' = <<>>
  /\ UNCHANGED <<networkId, chainGroup, methods, accounts, lastSetAccounts, connected,
                 streak, lastAccountsChanged, codec>>

\* A request on a channel whose wallet is not modelled.
Request(method, signerAddress, channelOk) ==
  onRequest(method, signerAddress, channelOk) /\ UNCHANGED wallet

Next ==
  \/ \E chains \in ChainLists, accts \in Payloads : Connect(chains, accts)
  \/ \E chains \in ChainLists, accts \in Payloads : Created(chains, accts)
  \/ \E chains \in ChainLists, accts \in Payloads : Updated(chains, accts)
  \/ \E data \in Payloads : NotifyAccounts(data)
  \/ \E data \in {NETWORK_ID, TestnetId} : NotifyChain(data)
  \/ \E n \in OtherNotifications : NotifyOther(n[1], n[2])
  \/ Disconnect
  \/ \E r \in Requests : Request(r[1], r[2], r[3])

Spec == Init /\ [][Next]_vars

---------------------------------------------------------------------------
(* The codec on its own: the static functions applied to bounded inputs *)

\* Network ids and groups the chain codec is applied to; -1 is the wildcard.
CodecNetworkIds == {0, TestnetId, NETWORK_ID, 7}
CodecGroups == {WildcardGroup, 0, 1, 2, 3}

\* Addresses and public keys: chunks, and strings that hold a separator
\* character ("addr-X", "pk:Y").
CodecAddresses == {<<"addrA">>, <<"addrB">>, <<"addr", "-", "X">>}
CodecPubkeys == {<<"pkA">>, <<"pk", ":", "Y">>}

\* Accounts as the Account interface allows them, the group non-negative.
CodecAccounts ==
  {[address |-> a, pubkey |-> k, group |-> g] :
     a \in CodecAddresses, k \in CodecPubkeys, g \in CodecGroups \ {WildcardGroup}}

\* Well-formed chain identifiers written with ":" only and with "-".
ChainForms == {<<"alephium", ":", "4", ":", "2">>, <<"alephium", ":", "4", "-", "2">>,
               <<"alephium", ":", "1", "-", "3">>}

\* Chain strings without the namespace prefix or with fewer than 3 fields:
\* "eip155:1", "bitcoin:4-2", "alephium:4", "alephium".
MalformedChains == {chainEip, <<"bitcoin", ":", "4", "-", "2">>,
                    <<"alephium", ":", "4">>, <<"alephium">>}

\* Well-formed account identifiers written with ":" only, with "-" and with "+".
AccountForms ==
  {<<"alephium", ":", "4", ":", "2", ":", "addrA", ":", "pkA">>,
   <<"alephium", ":", "4", "-", "2", ":", "addrA", "-", "pkA">>,
   <<"alephium", ":", "4", ":", "2", ":", "addrA", "-", "pkA">>,
   <<"alephium", ":", "4", "-", "2", ":", "addrA", "+", "pkA">>,
   <<"alephium", ":", "4", ":", "3", ":", "addrB", "+", "pkB">>}

\* static parseChain(static formatChain(nid, grp))
RoundTripChain(nid, grp) ==
  /\ codec' = [NoCodec EXCEPT !.kind = "chain", !.input = <<nid, grp>>,
                              !.string = formatChain(nid, grp),
                              !.result = parseChain(formatChain(nid, grp))]
  /\ UNCHANGED <<networkId, chainGroup, methods, accounts, lastSetAccounts, connected,
                 emitted, op, streak, lastAccountsChanged, wallet>>

\* static parseAccount(static formatAccount(nid, account))
RoundTripAccount(nid, account) ==
  /\ codec' = [NoCodec EXCEPT !.kind = "account", !.input = account,
                              !.networkId = nid,
                              !.string = formatAccount(nid, account),
                              !.result = parseAccount(formatAccount(nid, account))]
  /\ UNCHANGED <<networkId, chainGroup, methods, accounts, lastSetAccounts, connected,
                 emitted, op, streak, lastAccountsChanged, wallet>>

\* static parseChain(chainString): the function has no throw statement, and
\* replace, split, destructuring and Number throw on no string.  canonical is
\* the result for the same string written with ":" as the only separator.
ParseChainString(chainString, canonicalString) ==
  /\ codec' = [NoCodec EXCEPT !.kind = "parseChain", !.string = chainString,
                              !.result = parseChain(chainString),
                              !.canonical = parseChain(canonicalString),
                              !.threw = FALSE]
  /\ UNCHANGED <<networkId, chainGroup, methods, accounts, lastSetAccounts, connected,
                 emitted, op, streak, lastAccountsChanged, wallet>>

\* static parseAccount(account)
ParseAccountString(account, canonicalString) ==
  /\ codec' = [NoCodec EXCEPT !.kind = "parseAccount", !.string = account,
                              !.result = parseAccount(account),
                              !.canonical = parseAccount(canonicalString),
                              !.threw = FALSE]
  /\ UNCHANGED <<networkId, chainGroup, methods, accounts, lastSetAccounts, connected,
                 emitted, op, streak, lastAccountsChanged, wallet>>

\* this.isCompatibleChain(chain) of a provider constructed with chainGroup grp
ApplyIsCompatibleChain(chain, grp) ==
  /\ codec' = [NoCodec EXCEPT !.kind = "isCompatibleChain", !.string = chain,
                              !.input = <<grp>>,
                              !.result = <<isCompatibleChain(chain, grp)>>]
  /\ UNCHANGED <<networkId, chainGroup, methods, accounts, lastSetAccounts, connected,
                 emitted, op, streak, lastAccountsChanged, wallet>>

\* Chain lists with a compatible chain behind an incompatible one and with
\* several compatible chains.
SetChainLists ==
  ChainLists \cup {<<chain43, chain42, chain12>>, <<chainEip, chain12>>, <<chainEip>>}

\* this.setChain(chains) of a provider whose networkId is nid and whose
\* chainGroup is grp: the fields it leaves and the events it emits.
ApplySetChain(chains, nid, grp) ==
  /\ codec' = [NoCodec EXCEPT !.kind = "setChain", !.input = <<chains, nid, grp>>,
                              !.result = setChain(chains, nid, grp)]
  /\ UNCHANGED <<networkId, chainGroup, methods, accounts, lastSetAccounts, connected,
                 emitted, op, streak, lastAccountsChanged, wallet>>

\* An identifier with every alternate separator ("-", "+") written as ":".
ColonOnly(s) == [i \in 1..Len(s) |-> IF s[i] \in {"-", "+"} THEN ":" ELSE s[i]]

CodecNext ==
  \/ \E nid \in CodecNetworkIds, grp \in CodecGroups : RoundTripChain(nid, grp)
  \/ \E nid \in CodecNetworkIds, account \in CodecAccounts : RoundTripAccount(nid, account)
  \/ \E c \in ChainForms \cup MalformedChains : ParseChainString(c, ColonOnly(c))
  \/ \E a \in AccountForms : ParseAccountString(a, ColonOnly(a))
  \/ \E c \in ChainForms \cup MalformedChains, grp \in CodecGroups :
       ApplyIsCompatibleChain(c, grp)
  \/ \E chains \in SetChainLists, nid \in NetworkIds, grp \in Groups :
       ApplySetChain(chains, nid, grp)

CodecSpec == Init /\ [][CodecNext]_vars

---------------------------------------------------------------------------
(* The reconciler fed payloads that hold malformed entries *)

EntryNext ==
  \/ \E accts \in EntryPayloads : Created(<<chain42>>, accts)
  \/ \E data \in EntryPayloads : NotifyAccounts(data)
  \/ \E chains \in UnparseableChainLists, accts \in UnparseablePayloads :
       Updated(chains, accts)

EntrySpec == Init /\ [][EntryNext]_vars

---------------------------------------------------------------------------
(* What the input strings stand for, written down independently of the codec *)

accountA == Account("addrA", "pkA", CHAIN_GROUP)
accountB == Account("addrB", "pkB", CHAIN_GROUP + 1)

\* The account an input string encodes.
AccountOf(s) == IF s = acctB THEN accountB ELSE accountA

\* The network id an input string carries.
NetworkOf(s) == IF s = acctA7 THEN 7 ELSE NETWORK_ID

\* The accounts of group grp that a payload encodes, in incoming order.
RECURSIVE GroupMembers(_, _)
GroupMembers(raw, grp) ==
  IF raw = <<>> THEN <<>>
  ELSE (IF AccountOf(Head(raw)).group = grp THEN <<AccountOf(Head(raw))>> ELSE <<>>)
         \o GroupMembers(Tail(raw), grp)

\* The accounts a payload encodes, all of them, in incoming order.
AllMembers(raw) == [i \in 1..Len(raw) |-> AccountOf(raw[i])]

\* The accounts of a payload that carry network id nid and group grp.
RECURSIVE ChainMembers(_, _, _)
ChainMembers(raw, nid, grp) ==
  IF raw = <<>> THEN <<>>
  ELSE (IF NetworkOf(Head(raw)) = nid /\ AccountOf(Head(raw)).group = grp
        THEN <<AccountOf(Head(raw))>> ELSE <<>>)
         \o ChainMembers(Tail(raw), nid, grp)

AccountsChangedCount == Count(emitted, "accountsChanged")

\* The payloads of the accountsChanged events of the last step.
RECURSIVE AccountsChangedData(_)
AccountsChangedData(events) ==
  IF events = <<>> THEN <<>>
  ELSE (IF Head(events).type = "accountsChanged" THEN <<Head(events).data>> ELSE <<>>)
         \o AccountsChangedData(Tail(events))

---------------------------------------------------------------------------
(* The test's wallet (test/shared/WalletClient.ts) on the other end of the   *)
(* channel: what it sends is delivered to the provider in the order sent.    *)

\* A message in flight from the wallet to the provider's handlers.
Message(type, chains, accts, data) ==
  [type |-> type, chains |-> chains, accounts |-> accts, data |-> data]

\* WalletClient.getSessionState with signer key and network id nid.
getSessionState(permittedChains, key, nid) ==
  IF \E i \in 1..Len(permittedChains) :
       StrictEq(ParsedChain[permittedChains[i]][2], SignerAccount(key).group)
  THEN <<formatAccount(nid, SignerAccount(key))>>
  ELSE <<>>

\* The notification of emitAccountsChangedEvent.
accountsChangedNotification(key, nid) ==
  Message("accountsChanged", <<>>, <<formatAccount(nid, SignerAccount(key))>>, 0)

\* The session's permitted chains after client.upgrade: the chain is added.
upgradedChains(chains, chain) ==
  IF Includes(chains, chain) THEN chains ELSE chains \o <<chain>>

\* The proposal handler: the wallet approves the session the provider's
\* connect() proposes, with the chains the connection was constructed with;
\* the channel then raises session-created and connect.
WalletApprove ==
  /\ ~wallet.session /\ ~connected
  /\ LET chains == <<formatChain(NETWORK_ID, chainGroup)>>
         state  == getSessionState(chains, wallet.signer, wallet.networkId)
     IN wallet' = [wallet EXCEPT !.session = TRUE,
                                 !.permittedChains = chains,
                                 !.sessionChains = chains,
                                 !.sessionAccounts = state,
                                 !.response = "none",
                                 !.inflight = <<Message("created", chains, state, 0),
                                                Message("connect", chains, state, 0)>>]
  /\ UNCHANGED <<networkId, chainGroup, methods, accounts, lastSetAccounts, connected,
                 emitted, op, streak, lastAccountsChanged, codec>>

\* changeAccount(privateKey): setAccount, then updateAccounts sends the session
\* update and the accountsChanged notification.
WalletChangeAccount(key) ==
  /\ wallet.session /\ key # wallet.signer
  /\ Len(wallet.inflight) + 2 <= MaxInFlight
  /\ LET state == getSessionState(wallet.permittedChains, key, wallet.networkId)
         settled == wallet.inflight = <<>> /\ wallet.signer = "a"
     IN wallet' = [wallet EXCEPT
          !.signer = key,
          !.sessionAccounts = state,
          !.response = "none",
          !.inflight = @ \o <<Message("updated", wallet.sessionChains, state, 0),
                              accountsChangedNotification(key, wallet.networkId)>>,
          !.trail = IF settled THEN <<key>>
                    ELSE IF wallet.trail # <<"off">> /\ Len(wallet.trail) = 1
                         THEN wallet.trail \o <<key>>
                    ELSE <<"off">>,
          !.events = IF settled THEN <<>>
                     ELSE IF wallet.trail # <<"off">> /\ Len(wallet.trail) = 1 THEN @
                     ELSE <<>>]
  /\ UNCHANGED <<networkId, chainGroup, methods, accounts, lastSetAccounts, connected,
                 emitted, op, streak, lastAccountsChanged, codec>>

\* changeChain(networkId, rpcUrl): setNetworkId, then updateChain sends the
\* session upgrade, the session update, the accountsChanged notification and
\* the chainChanged notification.
WalletChangeChain(nid) ==
  /\ wallet.session /\ nid # wallet.networkId
  /\ wallet.chainChanges < MaxChainChanges
  /\ Len(wallet.inflight) + 4 <= MaxInFlight
  /\ LET chains == upgradedChains(wallet.sessionChains,
                                  formatChain(nid, SignerAccount(wallet.signer).group))
         state  == getSessionState(wallet.permittedChains, wallet.signer, nid)
     IN wallet' = [wallet EXCEPT
          !.networkId = nid,
          !.sessionChains = chains,
          !.sessionAccounts = state,
          !.response = "none",
          !.chainChanges = @ + 1,
          !.trail = <<"off">>,
          !.events = <<>>,
          !.inflight = @ \o <<Message("updated", chains, wallet.sessionAccounts, 0),
                              Message("updated", chains, state, 0),
                              accountsChangedNotification(wallet.signer, nid),
                              Message("chainChanged", <<>>, <<>>, nid)>>]
  /\ UNCHANGED <<networkId, chainGroup, methods, accounts, lastSetAccounts, connected,
                 emitted, op, streak, lastAccountsChanged, codec>>

\* The wallet after the provider's handler took the first message in flight:
\* the accountsChanged events the handler emitted are added to the history of
\* the account changes under way.
delivered ==
  [wallet EXCEPT !.inflight = Tail(@),
                 !.response = "none",
                 !.events = IF wallet.trail = <<"off">> THEN <<>>
                            ELSE @ \o AccountsChangedData(emitted')]

nextMessage(type) == wallet.inflight # <<>> /\ Head(wallet.inflight).type = type

DeliverCreated ==
  /\ nextMessage("created")
  /\ onCreated(Head(wallet.inflight).chains, Head(wallet.inflight).accounts)
  /\ wallet' = delivered

DeliverConnect ==
  /\ nextMessage("connect")
  /\ onConnect(Head(wallet.inflight).chains, Head(wallet.inflight).accounts)
  /\ wallet' = delivered

DeliverUpdated ==
  /\ nextMessage("updated")
  /\ onUpdated(Head(wallet.inflight).chains, Head(wallet.inflight).accounts)
  /\ wallet' = delivered

DeliverAccountsChanged ==
  /\ nextMessage("accountsChanged")
  /\ onAccountsChanged(Head(wallet.inflight).accounts)
  /\ wallet' = delivered

DeliverChainChanged ==
  /\ nextMessage("chainChanged")
  /\ onChainChanged(Head(wallet.inflight).data)
  /\ wallet' = delivered

\* A wallet that signs whatever chain a request is tagged with.
walletResponseSigningAnyChain(method, chainId) ==
  IF method \in SigningMethods THEN "result" ELSE "methodNotSupported"

\* The session.request handler of the wallet: the response to a request with
\* target chain chainId.
walletResponse(method, chainId) ==
  LET target == parseChain(chainId)
  IN IF \/ ~StrictEq(target[1], wallet.networkId)
        \/ ~StrictEq(target[2], SignerAccount(wallet.signer).group)
     THEN "chainMismatch"
     ELSE IF method \in SigningMethods THEN "result"
     ELSE "methodNotSupported"

\* The session.request handler that signs a request without a target chain.
sessionRequestSigningUntagged(topicMatches, chainId, method, signing) ==
  IF ~wallet.session \/ ~topicMatches THEN <<>>
  ELSE IF chainId = Undefined THEN <<"result">>
  ELSE <<walletResponse(method, chainId)>>

\* The session.request handler, whole: the responses the wallet sends for a
\* request event.  topicMatches is topic === this.topic (this.topic is
\* undefined before a session), chainId is the event's chainId or undefined,
\* signing is what the signer does with a supported method on the active
\* chain: it returns a result, throws, or returns undefined.
sessionRequest(topicMatches, chainId, method, signing) ==
  IF ~wallet.session \/ ~topicMatches THEN <<>>
  ELSE IF chainId = Undefined THEN <<"missingChain">>
  ELSE LET response == walletResponse(method, chainId)
       IN IF response # "result" THEN <<response>>
          ELSE IF signing = "signed" THEN <<"result">>
          ELSE IF signing = "threw" THEN <<"signerError">>
          ELSE <<"undefinedResult">>

\* provider.request(...) with the wallet answering what the channel hands it.
WalletRequest(method, signerAddress) ==
  /\ wallet.session /\ connected
  /\ LET response == walletResponse(method, requestChainId(networkId, chainGroup))
     IN /\ onRequest(method, signerAddress, response = "result")
        /\ wallet' = [wallet EXCEPT !.response =
                        IF dispatch(method, methods) = "forward" THEN response
                        ELSE "none"]

\* The provider of the test: constructed with the group of the wallet's account a.
WalletInit == Init /\ chainGroup = CHAIN_GROUP

WalletNext ==
  \/ WalletApprove
  \/ \E key \in SignerKeys : WalletChangeAccount(key)
  \/ \E nid \in {NETWORK_ID, TestnetId} : WalletChangeChain(nid)
  \/ DeliverCreated
  \/ DeliverConnect
  \/ DeliverUpdated
  \/ DeliverAccountsChanged
  \/ DeliverChainChanged
  \/ \E method \in {"alph_getAccounts", "alph_signTransferTx", "alph_signMessage",
                     "wallet_custom"} : WalletRequest(method, <<"addrA">>)

WalletSpec == WalletInit /\ [][WalletNext]_vars

---------------------------------------------------------------------------
(* The wallet's responder on its own: request events of any topic and chain  *)

\* "bitcoin:4-2": the active chain's numbers under another namespace.
chainBitcoin == <<"bitcoin", ":", "4", "-", "2">>

\* The request events the wallet's client raises:
\* <<topic === this.topic, chainId, request.method, what the signer does>>.
SessionRequests ==
  {<<t, c, "alph_signTransferTx", "signed">> :
     t \in BOOLEAN, c \in {Undefined, chain42, chain12, chain4x, chainBitcoin}}
    \cup {<<TRUE, formatChain(NETWORK_ID, CHAIN_GROUP + 1), "alph_signMessage", "signed">>,
          <<TRUE, chain42, "wallet_custom", "signed">>,
          <<TRUE, chain42, "alph_signMessage", "threw">>,
          <<TRUE, chain42, "alph_signMessage", "undefined">>}

\* The wallets the responder runs in: before and after the session was
\* approved, on either network, with any of the test's accounts.
ResponderWallets ==
  {[NoWallet EXCEPT !.session = s, !.networkId = nid, !.signer = key,
                    !.permittedChains = IF s THEN <<chain42>> ELSE <<>>,
                    !.sessionChains = IF s THEN <<chain42>> ELSE <<>>] :
     s \in BOOLEAN, nid \in NetworkIds, key \in SignerKeys}

\* CLIENT_EVENTS.session.request raised at the wallet.
SessionRequest(topicMatches, chainId, method, signing) ==
  /\ codec' = [NoCodec EXCEPT !.kind = "sessionRequest", !.string = chainId,
                              !.input = <<topicMatches, method, signing>>,
                              !.result = sessionRequest(topicMatches, chainId, method,
                                                        signing)]
  /\ UNCHANGED <<networkId, chainGroup, methods, accounts, lastSetAccounts, connected,
                 emitted, op, streak, lastAccountsChanged, wallet>>

ResponderInit == ProviderInit /\ wallet \in ResponderWallets

ResponderNext == \E r \in SessionRequests : SessionRequest(r[1], r[2], r[3], r[4])

ResponderSpec == ResponderInit /\ [][ResponderNext]_vars

---------------------------------------------------------------------------
(* Claims *)

\* C1: a step emits accountsChanged at most once, and only if it changes the
\* published accounts; when a payload is fed to setAccounts in two successive
\* steps, the second step emits no accountsChanged and leaves accounts unchanged.
C1_IdempotentReconciliation ==
  /\ AccountsChangedCount <= 1
  /\ (op.fed /\ AccountsChangedCount = 1) => op.changed
  /\ op.repeat => (AccountsChangedCount = 0 /\ ~op.changed)

\* C1 witness: a non-empty payload was fed twice in succession while the
\* accounts it publishes are published.
C1_Witness == op.repeat /\ op.payload # <<>> /\ accounts # <<>>

\* C2 as claimed: of the deliveries of one payload, whatever handler they come
\* through, only the first can emit accountsChanged; once the payload was fed,
\* the published accounts and the number of accountsChanged events are those of
\* a single delivery.
C2_OnlyFirstDeliveryEmits ==
  /\ (op.delivery /\ ~op.first) => AccountsChangedCount = 0
  /\ streak.anyFed =>
       (accounts = streak.expectAccounts /\ streak.emits = streak.expectEmits)

\* C2 as amended: of the deliveries of one payload, only the first that the
\* handler passes to setAccounts can emit accountsChanged (the connect handler
\* passes no empty snapshot on); once the payload was fed, the published accounts
\* and the number of accountsChanged events are those of a single delivery.
C2_CrossPathDedup ==
  /\ (op.delivery /\ ~op.fed) => AccountsChangedCount = 0
  /\ (op.delivery /\ op.laterFed) => AccountsChangedCount = 0
  /\ (streak.started /\ ~streak.anyFed) => streak.emits = 0
  /\ streak.anyFed =>
       (accounts = streak.expectAccounts /\ streak.emits = streak.expectEmits)

\* C2 witness: a payload that published accounts is redelivered through another
\* handler than the one before and emits nothing more.
C2_Witness ==
  /\ op.crossPath /\ op.laterFed /\ op.kind = "notification"
  /\ streak.emits = 1 /\ accounts # <<>>

\* C3: with a group G other than the wildcard, after setAccounts processed a
\* payload the published accounts are the payload's accounts of group G in
\* incoming order, an accountsChanged event of the step carries that list, and
\* every published account has group G.
C3_Scoping ==
  chainGroup # WildcardGroup =>
    /\ \A i \in 1..Len(accounts) : accounts[i].group = chainGroup
    /\ op.fed => accounts = GroupMembers(op.payload, chainGroup)
    /\ op.fed => \A i \in 1..Len(AccountsChangedData(emitted)) :
                   AccountsChangedData(emitted)[i] = GroupMembers(op.payload, chainGroup)

\* C3 witness: session-created delivered accounts of groups G and G+1 and the
\* account of group G alone was published and notified.
C3_Witness ==
  /\ chainGroup = CHAIN_GROUP /\ op.kind = "created" /\ op.payload = <<acctA, acctB>>
  /\ accounts = <<accountA>>
  /\ AccountsChangedData(emitted) = <<(<<accountA>>)>>

\* C4: with the wildcard group configured, after setAccounts processed a payload
\* every account of the payload is published, whatever its group.
C4_WildcardPassthrough ==
  (chainGroup = WildcardGroup /\ op.fed) => accounts = AllMembers(op.payload)

\* C5: after setAccounts processed a payload, the published accounts are the
\* payload's accounts that carry the provider's network id and group; an account
\* string of another network id is not published.
C5_ChainAndGroupCompatibility ==
  (chainGroup # WildcardGroup /\ op.fed) =>
    accounts = ChainMembers(op.payload, networkId, chainGroup)

\* C6: alph_getAccounts is never handed to the channel; it returns the published
\* accounts, which are the payload of the last accountsChanged event, or the
\* empty list when none was emitted.
C6_GetAccountsIsLocal ==
  /\ lastAccountsChanged = accounts
  /\ (op.kind = "request" /\ op.method = "alph_getAccounts") =>
       /\ ~op.forwarded
       /\ op.outcome = "accounts"
       /\ op.value = accounts
       /\ op.value = lastAccountsChanged

\* C6 witness: getAccounts answered with published accounts after a disconnect.
C6_Witness ==
  /\ op.kind = "request" /\ op.method = "alph_getAccounts"
  /\ op.value # <<>> /\ ~connected

\* C7: a request for a method that is not in the method list is rejected as an
\* invalid method and is not handed to the channel.
C7_UnsupportedMethodRejected ==
  (op.kind = "request" /\ ~Includes(methods, op.method)) =>
    (op.outcome = "invalidMethod" /\ ~op.forwarded)

\* C7 witness: eth_sign was requested and rejected.
C7_Witness ==
  op.kind = "request" /\ op.method = "eth_sign" /\ op.outcome = "invalidMethod"

\* C8: a request for a supported signing method whose params carry no signer
\* field fails with MissingSigner and is not handed to the channel.
C8_MissingSignerRejected ==
  (op.kind = "request" /\ op.method \in SigningMethods /\ op.signer = Undefined) =>
    (~op.forwarded /\ op.outcome = "missingSigner")

\* C9: a signing request whose signer address is the address of no published
\* account fails with UnknownSigner and is not handed to the channel.
C9_UnknownSignerRejected ==
  (/\ op.kind = "request" /\ op.method \in SigningMethods /\ op.signer # Undefined
   /\ \A i \in 1..Len(accounts) : accounts[i].address # op.signer) =>
    (~op.forwarded /\ op.outcome = "unknownSigner")

\* C10: every request handed to the channel has a signer that is a published
\* account and is tagged with the chain of the current network id and that
\* account's group.
C10_TagFromSignerGroup ==
  op.forwarded =>
    \E i \in 1..Len(accounts) :
      /\ accounts[i].address = op.signer
      /\ op.tag = formatChain(networkId, accounts[i].group)

\* C16: when the chainChanged notification that follows a session upgrade is
\* delivered with network id n, the provider emits chainChanged with payload n
\* and networkId is n, on the change to another network and on the change back.
C16_ChainChangeObserved ==
  op.kind = "notifyChain" =>
    /\ networkId = op.value[1]
    /\ emitted = <<Event("chainChanged", op.value[1])>>

\* C16 witness: after a change to the testnet, a session-updated event and then
\* the notification of the change back to the original network were delivered.
C16_Witness ==
  /\ op.kind = "notifyChain" /\ op.afterUpdated /\ op.from = <<TestnetId>>
  /\ networkId = NETWORK_ID
  /\ emitted = <<Event("chainChanged", NETWORK_ID)>>

\* C17: a step that leaves networkId and chainGroup at their previous values
\* emits no chainChanged.
C17_OneChainChangedPerChange ==
  [][(networkId' = networkId /\ chainGroup' = chainGroup)
       => Count(emitted', "chainChanged") = 0]_vars

\* C18: when setChain is fed, in two successive steps, the same chain list, the
\* second step emits no chainChanged.
C18_IdempotentChainReconciliation ==
  op.chainRepeat => Count(emitted, "chainChanged") = 0

\* The accounts of a payload that are compatible with group grp: all of them
\* under the wildcard, those of group grp otherwise.
CompatibleMembers(raw, grp) ==
  IF grp = WildcardGroup THEN AllMembers(raw) ELSE GroupMembers(raw, grp)

\* C19: when connect() resolves for a session whose accounts the connect
\* handler, or the session-created handler just before it, has reconciled, the
\* returned list is the session's accounts compatible with the provider's group.
C19_ConnectReturnsCompatibleAccounts ==
  (op.kind = "connect" /\ (op.fed \/ op.crossPath)) =>
    /\ op.value = accounts
    /\ op.value = CompatibleMembers(op.payload, chainGroup)

\* C20: a disconnect signal of the channel is re-emitted as exactly one
\* "disconnect" event, and connected is false afterwards.
C20_DisconnectReemitted ==
  op.kind = "disconnect" =>
    (emitted = <<Event("disconnect", <<>>)>> /\ ~connected)

\* C20 witness: the wallet disconnected a session whose accounts were published.
C20_Witness ==
  /\ op.kind = "disconnect" /\ accounts # <<>>
  /\ Count(emitted, "disconnect") = 1 /\ ~connected

---------------------------------------------------------------------------
(* Claims about the codec, checked under CodecSpec *)

\* Whether a string holds none of the characters the decoder splits at.
NoSeparator(str) == \A i \in 1..Len(str) : str[i] \notin {":", "-"}

\* Whether a chain string starts with the namespace prefix and has 3 fields.
WellFormedChain(str) ==
  /\ Len(str) >= 2 /\ str[1] = namespace /\ str[2] = ":"
  /\ Len(Split(ColonOnly(str))) >= 3

\* C11: for every network id and every group, the wildcard -1 included,
\* parseChain(formatChain(networkId, group)) is the pair (networkId, group).
C11_ChainRoundTrip ==
  codec.kind = "chain" => codec.result = codec.input

\* C12 as claimed: for every network id and every account with non-empty
\* address and pubkey and a non-negative group,
\* parseAccount(formatAccount(networkId, account)) is the account.
C12_AccountRoundTrip ==
  codec.kind = "account" => codec.result = codec.input

\* C12 as amended: the round trip returns the account when its address and
\* pubkey hold neither ":" nor "-".
C12_AccountRoundTripWithoutSeparators ==
  (/\ codec.kind = "account"
   /\ NoSeparator(codec.input.address) /\ NoSeparator(codec.input.pubkey)) =>
    codec.result = codec.input

\* C12 witness: an account of group 3 under network id 7 went through the
\* round trip and came back as it was.
C12_Witness ==
  /\ codec.kind = "account" /\ codec.networkId = 7
  /\ codec.input = [address |-> <<"addrB">>, pubkey |-> <<"pkA">>, group |-> 3]
  /\ codec.result = codec.input

\* C13: parseChain and parseAccount return for a well-formed identifier written
\* with the alternate separators ("-" between network id and group, "+" or "-"
\* between address and pubkey) what they return for the same identifier written
\* with ":" only.
C13_SeparatorTolerance ==
  (/\ codec.kind \in {"parseChain", "parseAccount"}
   /\ codec.string \in ChainForms \cup AccountForms) =>
    codec.result = codec.canonical

\* C14: parseChain fails on a string without the namespace prefix or with fewer
\* than 3 fields, and returns no pair for it.
C14_MalformedChainFails ==
  (codec.kind = "parseChain" /\ ~WellFormedChain(codec.string)) => codec.threw

\* The network id a chain tag names: its second field if that is a numeral.
NamedNetwork(str) ==
  IF Len(str) = 5 /\ str[3] \in Numerals THEN NumeralValue(str[3]) ELSE NaN

\* The group a chain string names: its third field if that is a numeral.
NamedGroup(str) ==
  IF Len(str) = 5 /\ str[5] \in Numerals THEN NumeralValue(str[5]) ELSE NaN

\* C30: isCompatibleChain(chain) is true exactly if the string starts with the
\* namespace prefix and the configured group is the wildcard -1 or is the group
\* the string names; under the wildcard every chain string of the namespace is
\* compatible.
C30_CompatibleChain ==
  codec.kind = "isCompatibleChain" =>
    codec.result[1] =
      (/\ Len(codec.string) >= 2
       /\ codec.string[1] = namespace /\ codec.string[2] = ":"
       /\ \/ codec.input[1] = WildcardGroup
          \/ NamedGroup(codec.string) = codec.input[1])

\* What the chain strings of the lists stand for.
NamespaceChain(c) == c \in {chain42, chain12, chain43}
ChainNetwork(c) == IF c = chain12 THEN TestnetId ELSE NETWORK_ID
ChainGroup(c) == IF c = chain43 THEN CHAIN_GROUP + 1 ELSE CHAIN_GROUP

\* The positions of a chain list that hold a chain of the namespace and of
\* group grp.
MatchingPositions(chains, grp) ==
  {i \in 1..Len(chains) : NamespaceChain(chains[i]) /\ ChainGroup(chains[i]) = grp}

\* C31: setChain sets (networkId, chainGroup) from the first entry of the list,
\* in incoming order, that is a chain of the namespace and of the provider's
\* group, and emits chainChanged with its network id; later entries are
\* ignored; when no entry is compatible it leaves both fields and emits nothing.
C31_FirstMatchWins ==
  codec.kind = "setChain" =>
    LET chains == codec.input[1]
        nid    == codec.input[2]
        grp    == codec.input[3]
        found  == MatchingPositions(chains, grp)
    IN IF found # {}
       THEN LET first == chains[CHOOSE i \in found : \A j \in found : i <= j]
            IN codec.result = [networkId  |-> ChainNetwork(first),
                               chainGroup |-> ChainGroup(first),
                               events     |-> <<Event("chainChanged", ChainNetwork(first))>>]
       ELSE codec.result = [networkId |-> nid, chainGroup |-> grp, events |-> <<>>]

\* C31 witness: of [alephium:4:3, alephium:4-2, alephium:1-2] a provider of
\* network 1 and group 2 adopted the second entry and not the third.
C31_Witness ==
  /\ codec.kind = "setChain"
  /\ codec.input = << <<chain43, chain42, chain12>>, TestnetId, CHAIN_GROUP >>
  /\ codec.result.networkId = NETWORK_ID

---------------------------------------------------------------------------
(* Claims about malformed entries, checked under EntrySpec *)

\* The entries of a payload that are well-formed, in incoming order.
RECURSIVE WellFormedEntries(_)
WellFormedEntries(raw) ==
  IF raw = <<>> THEN <<>>
  ELSE (IF Head(raw) \in MalformedAccounts THEN <<>> ELSE <<Head(raw)>>)
         \o WellFormedEntries(Tail(raw))

\* C15: after setAccounts processed a payload that holds malformed entries, the
\* published accounts and the payload of an accountsChanged event of the step
\* are what the payload without its malformed entries publishes: the accounts
\* of group G among the well-formed entries.
C15_DecodeIsolation ==
  (op.fed /\ chainGroup # WildcardGroup) =>
    /\ accounts = GroupMembers(WellFormedEntries(op.payload), chainGroup)
    /\ \A i \in 1..Len(AccountsChangedData(emitted)) :
         AccountsChangedData(emitted)[i] =
           GroupMembers(WellFormedEntries(op.payload), chainGroup)

\* C32: a chain or account string whose network id or group is no number is
\* never adopted as the provider's chain and never published as an account:
\* networkId and chainGroup are numbers, and no published account comes from
\* such a string.
C32_UnparseableNeverMatches ==
  /\ networkId # NaN /\ chainGroup # NaN
  /\ \A i \in 1..Len(accounts) : accounts[i].address \notin {<<"addrX">>, <<"addrN">>}

---------------------------------------------------------------------------
(* Claims about single steps of the provider (checked under Spec) *)

\* C23: a session-updated step always feeds the session's accounts to
\* setAccounts, under the chain the step ends with; when the provider's chain
\* formatChain(networkId, chainGroup) is among the session's chains, the step
\* leaves networkId and chainGroup unchanged and emits no chainChanged, so a
\* chain is adopted only when the provider's chain is absent.
C23_UpdatedFeedsChainOnlyIfAbsent ==
  [][op'.kind = "updated" =>
       LET a == setAccounts(op'.payload, networkId', chainGroup', accounts, lastSetAccounts)
       IN /\ op'.fed
          /\ accounts' = a.accounts
          /\ lastSetAccounts' = a.lastSetAccounts
          /\ AccountsChangedData(emitted') = [i \in 1..Len(a.events) |-> a.events[i].data]
          /\ op'.present =>
                /\ networkId' = networkId /\ chainGroup' = chainGroup
                /\ Count(emitted', "chainChanged") = 0
          /\ Count(emitted', "chainChanged") > 0 => ~op'.present]_vars

\* C23 witness: a session update whose chains hold the provider's chain
\* published new accounts and emitted no chainChanged.
C23_Witness ==
  /\ op.kind = "updated" /\ op.present /\ op.changed
  /\ accounts = <<accountA>> /\ Count(emitted, "chainChanged") = 0

\* C24: a notification of a type other than accountsChanged and chainChanged
\* is re-emitted once with its type and its data, and the step changes neither
\* networkId, chainGroup, accounts, the dedup cache nor the connection.
C24_OtherNotificationPassThrough ==
  [][op'.kind = "notifyOther" =>
       /\ emitted' = <<Event(op'.value[1], op'.value[2])>>
       /\ UNCHANGED <<networkId, chainGroup, accounts, lastSetAccounts, methods,
                      connected>>]_vars

\* C24 witness: a walletLocked notification was re-emitted while accounts
\* were published.
C24_Witness ==
  /\ op.kind = "notifyOther" /\ op.value = <<"walletLocked", <<>> >>
  /\ emitted = <<Event("walletLocked", <<>>)>> /\ accounts # <<>>

\* C25: a request handed to the channel is handed over exactly once; when the
\* channel fails it, the caller gets the channel's failure; the request step
\* leaves the connection as it was and emits nothing.
C25_NoRetry ==
  [][(op'.kind = "request" /\ op'.forwarded) =>
       /\ op'.sends = 1
       /\ ~op'.channelOk => op'.outcome = "channelError"
       /\ op'.channelOk => op'.outcome = "channelResult"
       /\ connected' = connected
       /\ emitted' = <<>>]_vars

\* C25 witness: the channel failed a forwarded request after the disconnect.
C25_Witness ==
  /\ op.kind = "request" /\ op.forwarded /\ ~op.channelOk
  /\ op.outcome = "channelError" /\ op.sends = 1 /\ ~connected

\* C26: when a payload fed to setAccounts is treated as a redelivery (the
\* dedup cache is left as the step before set it), it is string for string
\* the payload the step before cached.
C26_RawDedupStringForString ==
  [][(op.fed /\ op.changed /\ op'.fed /\ lastSetAccounts' = lastSetAccounts) =>
       op'.payload = op.payload]_vars

\* C27: when setAccounts is fed a payload whose compatible accounts equal the
\* published accounts, the dedup cache holds that payload afterwards, no
\* accountsChanged is emitted and accounts is unchanged.
C27_FilteredDedup ==
  [][(op'.fed /\ CompatibleMembers(op'.payload, chainGroup') = accounts) =>
       /\ lastSetAccounts' = Some(AllMembers(op'.payload))
       /\ Count(emitted', "accountsChanged") = 0
       /\ accounts' = accounts]_vars

\* C27 witness: with [A] published, a payload holding A and an account of
\* another group was fed after a different payload.
C27_Witness ==
  /\ op.fed /\ op.first /\ ~op.changed /\ chainGroup = CHAIN_GROUP
  /\ op.payload = <<acctA, acctB>> /\ accounts = <<accountA>>
  /\ lastSetAccounts = Some(<<accountA, accountB>>)
  /\ Count(emitted, "accountsChanged") = 0

\* C28: accounts changes only in a step that emits exactly one accountsChanged;
\* every accountsChanged of a step carries the accounts published after it; a
\* payload fed to setAccounts whose filtered result (its accounts of the
\* provider's group) differs from the published accounts emits exactly one
\* accountsChanged carrying that filtered result.
C28_ChangeAndEventCoincide ==
  [][/\ accounts' # accounts => Count(emitted', "accountsChanged") = 1
     /\ \A i \in 1..Len(AccountsChangedData(emitted')) :
          AccountsChangedData(emitted')[i] = accounts'
     /\ (op'.fed /\ GroupMembers(op'.payload, chainGroup') # accounts) =>
          /\ AccountsChangedData(emitted') = <<GroupMembers(op'.payload, chainGroup')>>
          /\ accounts' = GroupMembers(op'.payload, chainGroup')]_vars

\* C28 witness: a notification with a new payload replaced the published
\* accounts by [A] and emitted one accountsChanged carrying [A].
C28_Witness ==
  /\ op.kind = "notification" /\ op.first /\ op.changed
  /\ op.payload = <<acctB, acctA>> /\ accounts = <<accountA>>
  /\ AccountsChangedData(emitted) = << <<accountA>> >>

\* C29: when accounts are published and a payload with no compatible account
\* is fed to setAccounts, exactly one accountsChanged carrying the empty list
\* is emitted and accounts becomes empty; when no account is published, such a
\* payload emits no accountsChanged.
C29_SwitchToIncompatible ==
  [][(op'.fed /\ CompatibleMembers(op'.payload, chainGroup') = <<>>) =>
       /\ accounts # <<>> =>
             (AccountsChangedData(emitted') = << <<>> >> /\ accounts' = <<>>)
       /\ accounts = <<>> =>
             (Count(emitted', "accountsChanged") = 0 /\ accounts' = <<>>)]_vars

\* C29 witness: a notification with an account of another group emptied the
\* published accounts.
C29_Witness ==
  /\ op.kind = "notification" /\ op.payload = <<acctB>> /\ op.changed
  /\ chainGroup = CHAIN_GROUP /\ accounts = <<>>
  /\ AccountsChangedData(emitted) = << <<>> >>

\* C33 as claimed: a connect step feeds the account snapshot to setAccounts
\* once, whatever the snapshot holds: accounts and the dedup cache are what
\* one call of setAccounts leaves.
C33_ConnectFeedsEachOnce ==
  [][op'.kind = "connect" =>
       LET a == setAccounts(op'.payload, networkId', chainGroup', accounts, lastSetAccounts)
       IN /\ accounts' = a.accounts
          /\ lastSetAccounts' = a.lastSetAccounts
          /\ AccountsChangedData(emitted') = [i \in 1..Len(a.events) |-> a.events[i].data]]_vars

\* C33 as amended: a connect step feeds the chain snapshot to setChain once and
\* the account snapshot to setAccounts once if the snapshot is not empty; an
\* empty account snapshot is not fed: accounts and the dedup cache are left
\* and no accountsChanged is emitted.
C33_ConnectFeedsNonEmptyOnce ==
  [][op'.kind = "connect" =>
       LET a == setAccounts(op'.payload, networkId', chainGroup', accounts, lastSetAccounts)
       IN /\ connected'
          /\ Count(emitted', "chainChanged") <= 1
          /\ \A i \in 1..Len(emitted') :
                emitted'[i].type = "chainChanged" => emitted'[i].data = networkId'
          /\ op'.fed = (op'.payload # <<>>)
          /\ op'.payload # <<>> =>
                /\ accounts' = a.accounts
                /\ lastSetAccounts' = a.lastSetAccounts
                /\ AccountsChangedData(emitted') =
                     [i \in 1..Len(a.events) |-> a.events[i].data]
          /\ op'.payload = <<>> =>
                /\ accounts' = accounts
                /\ lastSetAccounts' = lastSetAccounts
                /\ Count(emitted', "accountsChanged") = 0]_vars

\* C33 witness: connect with an empty account snapshot while accounts are
\* published.
C33_Witness ==
  /\ op.kind = "connect" /\ op.payload = <<>> /\ ~op.fed
  /\ accounts # <<>> /\ Count(emitted, "accountsChanged") = 0

\* C34: a request step, whatever its method and its outcome, leaves networkId,
\* chainGroup, accounts, the dedup cache and the method list unchanged and
\* emits nothing.
C34_DispatcherReadOnly ==
  [][op'.kind = "request" =>
       /\ UNCHANGED <<networkId, chainGroup, accounts, lastSetAccounts, methods>>
       /\ emitted' = <<>>
       /\ op'.outcome \in {"accounts", "channelResult", "channelError", "invalidMethod"}]_vars

\* C34 witness: signMessage was forwarded and failed by the channel while
\* accounts were published on the testnet.
C34_Witness ==
  /\ op.kind = "request" /\ op.method = "alph_signMessage"
  /\ op.outcome = "channelError" /\ accounts # <<>> /\ networkId = TestnetId

\* The accounts of a list whose group is grp, in the list's order.
RECURSIVE OfGroup(_, _)
OfGroup(accs, grp) ==
  IF accs = <<>> THEN <<>>
  ELSE (IF Head(accs).group = grp THEN <<Head(accs)>> ELSE <<>>)
         \o OfGroup(Tail(accs), grp)

\* C36: in every reachable state accounts is empty while no account payload
\* was cached, and afterwards accounts is, entry by entry and in order, the
\* cached payload's accounts whose group is chainGroup.
C36_CacheStateConsistency ==
  IF lastSetAccounts = None THEN accounts = <<>>
  ELSE accounts = OfGroup(lastSetAccounts[1], chainGroup)

\* C36 witness: the cache holds an account of another group before A, and A
\* alone is published.
C36_Witness ==
  /\ lastSetAccounts = Some(<<accountB, accountA>>) /\ accounts = <<accountA>>
  /\ op.kind = "updated"

\* C37: no step changes chainGroup: it stays what the constructor was given.
C37_GroupIsFixed == [][chainGroup' = chainGroup]_vars

\* C37 witness: setChain adopted the testnet's chain on session-created and
\* the group is the constructor's.
C37_Witness ==
  /\ op.kind = "created" /\ op.chains = Some(<<chain12, chain42>>)
  /\ networkId = TestnetId /\ chainGroup = CHAIN_GROUP
  /\ Count(emitted, "chainChanged") = 1

\* C38: a chainChanged notification leaves accounts and the dedup cache and
\* emits no accountsChanged; a handler step whose setChain changes networkId
\* and that feeds no account payload other than the cached one does the same.
C38_ChainEventsLeaveAccounts ==
  [][/\ op'.kind = "notifyChain" =>
          /\ UNCHANGED <<accounts, lastSetAccounts, chainGroup>>
          /\ Count(emitted', "accountsChanged") = 0
     /\ ( /\ op'.delivery /\ networkId' # networkId
          /\ (~op'.fed \/ lastSetAccounts = Some(AllMembers(op'.payload))) ) =>
          /\ UNCHANGED <<accounts, lastSetAccounts>>
          /\ Count(emitted', "accountsChanged") = 0]_vars

\* C38 witness: the notification changed the network to the testnet while
\* account A, published on the devnet, stays published.
C38_Witness ==
  /\ op.kind = "notifyChain" /\ op.from = <<NETWORK_ID>> /\ networkId = TestnetId
  /\ accounts = <<accountA>> /\ lastSetAccounts = Some(<<accountA>>)

\* C39: a disconnect step leaves accounts, networkId, chainGroup and the dedup
\* cache and emits no accountsChanged; while the channel is not connected, a
\* step that feeds the cached account payload emits no accountsChanged and
\* leaves accounts.
C39_DisconnectKeepsState ==
  [][/\ op'.kind = "disconnect" =>
          /\ UNCHANGED <<accounts, networkId, chainGroup, lastSetAccounts,
                         lastAccountsChanged>>
          /\ Count(emitted', "accountsChanged") = 0
     /\ (~connected /\ op'.fed /\ lastSetAccounts = Some(AllMembers(op'.payload))) =>
          /\ accounts' = accounts
          /\ Count(emitted', "accountsChanged") = 0]_vars

\* C39 witness: the channel disconnected on the testnet with account A
\* published.
C39_Witness ==
  /\ op.kind = "disconnect" /\ ~connected /\ networkId = TestnetId
  /\ accounts = <<accountA>> /\ lastSetAccounts = Some(<<accountA>>)

---------------------------------------------------------------------------
(* Claims about the provider with the test's wallet (checked under WalletSpec) *)

\* The accountsChanged payload the test expects for the wallet's account key.
ExpectedAccounts(key) ==
  IF SignerAccount(key).group = chainGroup THEN <<SignerAccount(key)>> ELSE <<>>

\* C21: with a connected wallet holding account a of the provider's group, a
\* change to another account followed by a change back to a, each sent as a
\* session update followed by an accountsChanged notification and delivered
\* in the order sent, makes the provider emit exactly two accountsChanged
\* events: the first carries the other account if it is of the provider's
\* group and the empty list otherwise, the second carries [a].
C21_ChangeAccountAndBack ==
  (wallet.trail # <<"off">> /\ wallet.inflight = <<>>) =>
    /\ Len(wallet.trail) = 1 =>
          wallet.events = <<ExpectedAccounts(wallet.trail[1])>>
    /\ (Len(wallet.trail) = 2 /\ wallet.trail[2] = "a") =>
          wallet.events = <<ExpectedAccounts(wallet.trail[1]), <<SignerAccount("a")>> >>

C21_Witness ==
  /\ wallet.trail = <<"b", "a">> /\ wallet.inflight = <<>>
  /\ wallet.events = << <<>>, <<SignerAccount("a")>> >>
  /\ accounts = <<SignerAccount("a")>>

\* C22: a signing request the wallet supports, issued while the provider's
\* (networkId, chainGroup) equal the wallet's active (networkId, group), goes
\* to the wallet tagged with that chain, is not answered with the chain
\* mismatch error and resolves with the signing result; also after the chain
\* was changed away and back.
C22_RequestOnActiveChain ==
  ( /\ wallet.response # "none"
    /\ op.method \in SigningMethods
    /\ networkId = wallet.networkId
    /\ chainGroup = SignerAccount(wallet.signer).group ) =>
    /\ op.kind = "request" /\ op.forwarded /\ op.sends = 1
    /\ op.tag = formatChain(wallet.networkId, SignerAccount(wallet.signer).group)
    /\ wallet.response = "result"
    /\ op.outcome = "channelResult"

C22_Witness ==
  /\ wallet.response = "result" /\ op.kind = "request" /\ op.forwarded
  /\ op.method = "alph_signTransferTx"
  /\ wallet.chainChanges = 2 /\ wallet.inflight = <<>>
  /\ networkId = NETWORK_ID /\ wallet.networkId = NETWORK_ID

\* C40: a forwarded request is tagged formatChain(networkId, chainGroup) with
\* the provider's values at the call; an emitted chainChanged carries the
\* network id later requests are tagged with; a request issued while the
\* provider's network id is not yet the wallet's is answered with the chain
\* mismatch error and rejected, not signed.
C40_TagFollowsChainState ==
  /\ \A i \in 1..Len(emitted) :
       emitted[i].type = "chainChanged" => emitted[i].data = networkId
  /\ wallet.response # "none" =>
       /\ op.kind = "request" /\ op.forwarded
       /\ op.tag = formatChain(networkId, chainGroup)
       /\ NamedNetwork(op.tag) = networkId /\ NamedGroup(op.tag) = chainGroup
       /\ networkId # wallet.networkId =>
            (wallet.response = "chainMismatch" /\ op.outcome = "channelError")

\* C40 witness: the wallet is on the testnet, its chainChanged notification is
\* still in flight, and a request tagged alephium:4-2 was rejected.
C40_Witness ==
  /\ wallet.response = "chainMismatch" /\ op.outcome = "channelError"
  /\ op.method = "alph_signTransferTx" /\ op.tag = chain42
  /\ networkId = NETWORK_ID /\ wallet.networkId = TestnetId
  /\ wallet.inflight # <<>>

---------------------------------------------------------------------------
(* Claims about the wallet's responder (checked under ResponderSpec) *)

\* C35: the wallet sends no signing result for a request without a chain tag or
\* with a tag naming another (networkId, group) than its active ones: it
\* answers with one error response; a request of another topic gets no
\* response, a request of the session's topic exactly one.
C35_ResponderChecksChain ==
  codec.kind = "sessionRequest" =>
    LET onTopic   == wallet.session /\ codec.input[1]
        responses == codec.result
        tagged    == /\ codec.string # Undefined
                     /\ NamedNetwork(codec.string) = wallet.networkId
                     /\ NamedGroup(codec.string) = SignerAccount(wallet.signer).group
    IN /\ Len(responses) = (IF onTopic THEN 1 ELSE 0)
       /\ (onTopic /\ ~tagged) =>
            responses \in {<<"missingChain">>, <<"chainMismatch">>}
       /\ (onTopic /\ tagged /\ codec.input[2] \in SigningMethods
              /\ codec.input[3] = "signed") => responses = <<"result">>

\* C35 witness: a wallet on the testnet answered a request tagged alephium:4-2
\* with the chain mismatch error.
C35_Witness ==
  /\ codec.kind = "sessionRequest" /\ codec.string = chain42
  /\ wallet.session /\ wallet.networkId = TestnetId /\ wallet.signer = "a"
  /\ codec.result = <<"chainMismatch">>

====
